---------------------------- MODULE Spec2Model ----------------------------
(***************************************************************************)
(* A model of infra/build_specified_commit.py: build_fuzzers_from_commit,  *)
(* detect_main_repo and execute.                                           *)
(*                                                                         *)
(* Text is a sequence of one-character strings.  A Python value is a       *)
(* record [type, data]: type "str" (text), "bytes" (undecoded process      *)
(* output) or "None".  The byte written "x80" stands for any byte >= 0x80, *)
(* the bytes that bytes.decode('ascii') rejects.                           *)
(***************************************************************************)
EXTENDS Integers, Sequences, FiniteSets, TLC

VARIABLES
    op,       \* the function the caller invoked, "none" between calls
    pc,       \* position inside that function
    args,     \* the call's arguments
    manager,  \* the build_repo_manager: repo_dir, repo_name, head (checked-out commit)
    log,      \* calls made to collaborators during the current call, in order
    proc,     \* the process spawned by execute: what it wrote and how it exited
    out,      \* detect_main_repo's local `out`
    result    \* how the call ended: a returned value or a raised exception

vars == <<op, pc, args, manager, log, proc, out, result>>

----------------------------------------------------------------------------
(* Bounds of the model. *)

\* longest text placed before the marker line of a probe output
MaxPre == 1
\* longest text placed after the marker line of a probe output
MaxPost == 2

----------------------------------------------------------------------------
(* Python values *)

Str(s) == [type |-> "str", data |-> s]
Bytes(b) == [type |-> "bytes", data |-> b]
NoneV == [type |-> "None", data |-> <<>>]

\* Python truthiness of None / str / bytes: `not repo_name`, `process.returncode or err`
Truthy(v) == v.type # "None" /\ v.data # <<>>

\* truthiness of an integer exit code
TruthyInt(n) == n # 0

Return(v) == [kind |-> "return", exc |-> "", value |-> v]
Raise(e) == [kind |-> "raise", exc |-> e, value |-> <<>>]
NoResult == [kind |-> "none", exc |-> "", value |-> <<>>]

----------------------------------------------------------------------------
(* Literals of the source *)

SrcRoot == <<"/", "s", "r", "c">>
DetectRepoPy == <<"d", "e", "t", "e", "c", "t", "_", "r", "e", "p", "o", ".", "p", "y">>
ImagePrefix == <<"g", "c", "r", ".", "i", "o", "/", "o", "s", "s", "-", "f", "u", "z", "z", "/">>
Marker == <<"D", "e", "t", "e", "c", "t", "e", "d", " ", "r", "e", "p", "o", ":", " ">>
TokDocker == <<"d", "o", "c", "k", "e", "r">>
TokRun == <<"r", "u", "n">>
TokRm == <<"-", "-", "r", "m">>
TokT == <<"-", "t">>
TokPython3 == <<"p", "y", "t", "h", "o", "n", "3">>
TokSrcDir == <<"-", "-", "s", "r", "c", "_", "d", "i", "r">>
TokRepoName == <<"-", "-", "r", "e", "p", "o", "_", "n", "a", "m", "e">>
TokExampleCommit == <<"-", "-", "e", "x", "a", "m", "p", "l", "e", "_", "c", "o", "m", "m", "i", "t">>

----------------------------------------------------------------------------
(* Library functions the source calls *)

\* os.path.join(a, b) on POSIX: an absolute b replaces a; otherwise one "/" joins them
PathJoin(a, b) ==
    IF b # <<>> /\ b[1] = "/" THEN b
    ELSE IF a = <<>> \/ a[Len(a)] = "/" THEN a \o b
    ELSE a \o <<"/">> \o b

\* the bytes bytes.decode('ascii') accepts
NonAsciiBytes == {"x80"}
IsAscii(b) == \A i \in 1..Len(b) : b[i] \notin NonAsciiBytes

\* the characters str.rstrip() removes
Whitespace == {" ", "\n", "\r", "\t"}

\* a detect_main_repo that forgets .rstrip()
RStripOmitted(s) == s

\* str.rstrip(): drop the trailing whitespace
RStrip(s) ==
    LET n == CHOOSE k \in 0..Len(s) :
                 /\ k = 0 \/ s[k] \notin Whitespace
                 /\ \A j \in (k + 1)..Len(s) : s[j] \in Whitespace
    IN SubSeq(s, 1, n)

\* the characters the regular expression's \w matches (those the model's texts use)
WordChars == {"D", "e", "t", "c", "d", "r", "p", "o", "a", "b", "u", "y"}

\* \b at position i: exactly one of s[i-1], s[i] is a word character
WordBoundaryAt(s, i) ==
    LET before == i > 1 /\ s[i - 1] \in WordChars
        after == i <= Len(s) /\ s[i] \in WordChars
    IN before # after

LiteralAt(s, i, lit) ==
    /\ i + Len(lit) - 1 <= Len(s)
    /\ \A k \in 1..Len(lit) : s[i + k - 1] = lit[k]

\* [^ ]+ from position i, greedy: the last index of the run of non-space
\* characters that starts at i (i - 1 when the run is empty)
RunEnd(s, i) ==
    CHOOSE j \in (i - 1)..Len(s) :
        /\ \A k \in i..j : s[k] # " "
        /\ j = Len(s) \/ s[j + 1] = " "

NoMatch == [matched |-> FALSE, group1 |-> <<>>, group2 |-> <<>>]

\* r'\bDetected repo: ([^ ]+) ([^ ]+)' tried at position i
MatchAt(s, i) ==
    LET g1s == i + Len(Marker)
        g1e == RunEnd(s, g1s)
        g2s == g1e + 2
        g2e == RunEnd(s, g2s)
    IN IF /\ WordBoundaryAt(s, i)
          /\ LiteralAt(s, i, Marker)
          /\ g1e >= g1s
          /\ g1e + 1 <= Len(s)
          /\ s[g1e + 1] = " "
          /\ g2e >= g2s
       THEN [matched |-> TRUE, group1 |-> SubSeq(s, g1s, g1e),
             group2 |-> SubSeq(s, g2s, g2e)]
       ELSE NoMatch

\* re.search: the match at the leftmost position where the pattern matches
ReSearch(s) ==
    LET hits == {i \in 1..Len(s) : MatchAt(s, i).matched}
    IN IF hits = {} THEN NoMatch
       ELSE MatchAt(s, CHOOSE i \in hits : \A j \in hits : i <= j)


\* subprocess.Popen(command, stdout=subprocess.PIPE, cwd=location): which of the
\* child's streams are piped back; no stderr argument is passed
PopenStdoutPiped == TRUE
PopenStderrPiped == FALSE

\* process.communicate(): a stream that is not piped comes back as None
Communicate(p) ==
    <<IF PopenStdoutPiped THEN Bytes(p.stdout) ELSE NoneV,
      IF PopenStderrPiped THEN Bytes(p.stderr) ELSE NoneV>>

\* os.getcwd()
Getcwd == <<"/", "c", "w", "d">>

----------------------------------------------------------------------------
(* execute(command, location, check_result), given the spawned process p *)

\* `if not location: location = os.getcwd()`
ExecuteCwd(location) == IF ~Truthy(location) THEN Getcwd ELSE location.data

\* `check_result and (process.returncode or err)`
ExecuteFailed(check_result, returncode, err) ==
    check_result /\ (TruthyInt(returncode) \/ Truthy(err))

\* `out.decode('ascii')`: text for ASCII bytes, UnicodeDecodeError otherwise
Decode(b) ==
    IF IsAscii(b.data) THEN [ok |-> TRUE, value |-> Str(b.data)]
    ELSE [ok |-> FALSE, value |-> NoneV]

\* an execute that keeps the raw bytes when they do not decode
ExecuteKeepsRawBytes(check_result, p) ==
    LET o == Communicate(p)[1]
        err == Communicate(p)[2]
    IN IF ExecuteFailed(check_result, p.returncode, err)
       THEN Raise("RuntimeError")
       ELSE IF o.type # "None" /\ Decode(o).ok
            THEN Return(<<Decode(o).value, p.returncode>>)
            ELSE Return(<<o, p.returncode>>)

Execute(check_result, p) ==
    LET o == Communicate(p)[1]
        err == Communicate(p)[2]
    IN IF ExecuteFailed(check_result, p.returncode, err)
       THEN Raise("RuntimeError")
       ELSE IF o.type # "None"
            THEN IF Decode(o).ok
                 THEN Return(<<Decode(o).value, p.returncode>>)
                 ELSE Raise("UnicodeDecodeError")
            ELSE Return(<<o, p.returncode>>)

----------------------------------------------------------------------------
(* detect_main_repo: its pure parts *)

\* a precondition that tests `is None` instead of truthiness
DetectImpossibleIsNone(repo_name, commit) ==
    repo_name.type = "None" /\ commit.type = "None"

\* `if not repo_name and not commit`
DetectImpossible(repo_name, commit) == ~Truthy(repo_name) /\ ~Truthy(commit)

\* `docker_image_name = 'gcr.io/oss-fuzz/' + project_name`
DockerImageName(project_name) == ImagePrefix \o project_name

\* a command that prefers the commit when both anchors are given
CommandToRunCommitFirst(project_name, repo_name, commit, src_dir) ==
    <<TokDocker, TokRun, TokRm, TokT, ImagePrefix \o project_name, TokPython3,
      PathJoin(src_dir, DetectRepoPy), TokSrcDir, src_dir>>
    \o (IF Truthy(commit) THEN <<TokExampleCommit, commit.data>>
        ELSE <<TokRepoName, repo_name.data>>)

\* command_to_run, with the --repo_name / --example_commit extension
CommandToRun(project_name, repo_name, commit, src_dir) ==
    <<TokDocker, TokRun, TokRm, TokT, DockerImageName(project_name), TokPython3,
      PathJoin(src_dir, DetectRepoPy), TokSrcDir, src_dir>>
    \o (IF Truthy(repo_name) THEN <<TokRepoName, repo_name.data>>
        ELSE <<TokExampleCommit, commit.data>>)

\* a parse that reads the groups without testing `match` first
ParseDetectedUnguarded(o) ==
    IF o.type = "None" THEN Raise("AttributeError")
    ELSE IF o.type = "bytes" THEN Raise("TypeError")
    ELSE LET match == ReSearch(RStrip(o.data))
         IN IF match.matched
            THEN Return(<<Str(match.group1), Str(match.group2)>>)
            ELSE Raise("AttributeError")

\* lines 98-101: search the right-stripped output and return the two groups.
\* None has no rstrip (AttributeError); a str pattern cannot search bytes (TypeError).
ParseDetected(o) ==
    IF o.type = "None" THEN Raise("AttributeError")
    ELSE IF o.type = "bytes" THEN Raise("TypeError")
    ELSE LET match == ReSearch(RStrip(o.data))
         IN IF match.matched /\ match.group1 # <<>> /\ match.group2 # <<>>
            THEN Return(<<Str(match.group1), Str(match.group2)>>)
            ELSE Return(<<NoneV, NoneV>>)

----------------------------------------------------------------------------
(* The inputs the model draws from *)

BoundedSeq(A, n) == UNION {[1..k -> A] : k \in 0..n}

\* the tokens the probe reports as origin and name
Tokens == {<<"u">>, <<"y">>}

\* text before the marker line: short text, or a line that already holds the marker
PreTexts == BoundedSeq({"a", "\n"}, MaxPre) \cup {Marker \o <<"a", "\n">>}

\* the probe's answer: none, a full line, a line without the second field, a
\* line of bytes that are not ASCII
Lines ==
    {<<>>, <<"x80">>, Marker \o <<"u">>}
    \cup {Marker \o X \o <<" ">> \o Y : X \in Tokens, Y \in Tokens}

\* text after the marker line
PostTexts == BoundedSeq({"\n", "\r", "\t", " ", "b"}, MaxPost)

ProbeOutputs == {pre \o line \o post : pre \in PreTexts, line \in Lines, post \in PostTexts}

Procs == [stdout : ProbeOutputs, stderr : {<<>>, <<"w">>}, returncode : {0, 1}]
NoProc == [stdout |-> <<>>, stderr |-> <<>>, returncode |-> 0, spawned |-> FALSE]
Spawned(p) == [stdout |-> p.stdout, stderr |-> p.stderr, returncode |-> p.returncode,
               spawned |-> TRUE]

ProjectNames == {<<"p">>, <<"q", "2">>}
DetectRepoNames == {NoneV, Str(<<>>), Str(<<"y">>)}
DetectCommits == {NoneV, Str(<<>>), Str(<<"a", "b", "c">>)}
SrcDirs == {SrcRoot, <<"/", "w">>}

ValidCommits == {"abc123", "def456"}
Commits == ValidCommits \cup {"unknown"}
RepoNames == {<<"y">>, <<"a", "b">>, <<"/", "y">>}
RepoDir == <<"/", "w", "/", "y">>
Engines == {"libfuzzer", "afl"}
Sanitizers == {"address", "memory"}
Architectures == {"x86_64"}
Statuses == {0, 1}

Commands == {<<<<"e", "c", "h", "o">>, <<"a">>>>}
Locations == {NoneV, Str(<<"/", "w">>)}

NoArgs == [none |-> TRUE]
NoManager == [repo_dir |-> <<>>, repo_name |-> <<>>, head |-> "none"]

----------------------------------------------------------------------------
(* Collaborators outside this file *)

\* build_repo_manager.checkout_commit(commit): pins the working copy to a commit
\* it can check out; fails on any other
CheckoutSucceeds(commit) == commit \in ValidCommits
CheckedOut(m, commit) == [repo_dir |-> m.repo_dir, repo_name |-> m.repo_name, head |-> commit]

----------------------------------------------------------------------------
Init ==
    /\ op = "none"
    /\ pc = "idle"
    /\ args = NoArgs
    /\ manager = NoManager
    /\ log = <<>>
    /\ proc = NoProc
    /\ out = NoneV
    /\ result = NoResult

(* build_fuzzers_from_commit *)

\* the caller supplies the arguments and a repo manager it created
CallBuildFuzzersFromCommit ==
    /\ pc = "idle"
    /\ \E project_name \in ProjectNames, commit \in Commits, engine \in Engines,
          sanitizer \in Sanitizers, architecture \in Architectures,
          repo_name \in RepoNames, head \in ValidCommits :
          /\ args' = [project_name |-> project_name, commit |-> commit, engine |-> engine,
                      sanitizer |-> sanitizer, architecture |-> architecture]
          /\ manager' = [repo_dir |-> RepoDir, repo_name |-> repo_name, head |-> head]
    /\ op' = "build_fuzzers_from_commit"
    /\ pc' = "bf_checkout"
    /\ log' = <<>>
    /\ result' = NoResult
    /\ UNCHANGED <<proc, out>>

\* a build that never checks the commit out
BuildCheckoutSkipped ==
    /\ pc = "bf_checkout"
    /\ pc' = "bf_build"
    /\ UNCHANGED <<op, args, manager, log, proc, out, result>>

\* a build that catches the checkout failure and reports status 1
BuildCheckoutCaught ==
    /\ pc = "bf_checkout"
    /\ IF CheckoutSucceeds(args.commit)
       THEN /\ manager' = CheckedOut(manager, args.commit)
            /\ log' = Append(log, [ev |-> "checkout_commit", commit |-> args.commit,
                                   ok |-> TRUE])
            /\ pc' = "bf_build"
            /\ UNCHANGED result
       ELSE /\ log' = Append(log, [ev |-> "checkout_commit", commit |-> args.commit,
                                   ok |-> FALSE])
            /\ result' = Return(1)
            /\ pc' = "done"
            /\ UNCHANGED manager
    /\ UNCHANGED <<op, args, proc, out>>

\* line 50: build_repo_manager.checkout_commit(commit); its failure is not caught
BuildCheckout ==
    /\ pc = "bf_checkout"
    /\ IF CheckoutSucceeds(args.commit)
       THEN /\ manager' = CheckedOut(manager, args.commit)
            /\ log' = Append(log, [ev |-> "checkout_commit", commit |-> args.commit,
                                   ok |-> TRUE])
            /\ pc' = "bf_build"
            /\ UNCHANGED result
       ELSE /\ log' = Append(log, [ev |-> "checkout_commit", commit |-> args.commit,
                                   ok |-> FALSE])
            /\ result' = Raise("CheckoutError")
            /\ pc' = "done"
            /\ UNCHANGED manager
    /\ UNCHANGED <<op, args, proc, out>>

\* a build that concatenates the mount location and reports its own status
BuildDelegateConcat ==
    /\ pc = "bf_build"
    /\ \E status \in Statuses :
          /\ log' = Append(log, [ev |-> "build_fuzzers_impl",
                                 project_name |-> args.project_name,
                                 clean |-> TRUE,
                                 engine |-> args.engine,
                                 sanitizer |-> args.sanitizer,
                                 architecture |-> args.architecture,
                                 env_to_add |-> NoneV,
                                 source_path |-> manager.repo_dir,
                                 mount_location |-> SrcRoot \o manager.repo_name,
                                 head |-> manager.head,
                                 status |-> status])
          /\ result' = Return(status)
    /\ pc' = "done"
    /\ UNCHANGED <<op, args, manager, proc, out>>

\* lines 51-59: return helper.build_fuzzers_impl(...); the delegate sees the
\* working copy as it is at the call (head)
BuildDelegate ==
    /\ pc = "bf_build"
    /\ \E status \in Statuses :
          /\ log' = Append(log, [ev |-> "build_fuzzers_impl",
                                 project_name |-> args.project_name,
                                 clean |-> TRUE,
                                 engine |-> args.engine,
                                 sanitizer |-> args.sanitizer,
                                 architecture |-> args.architecture,
                                 env_to_add |-> NoneV,
                                 source_path |-> manager.repo_dir,
                                 mount_location |-> PathJoin(SrcRoot, manager.repo_name),
                                 head |-> manager.head,
                                 status |-> status])
          /\ result' = Return(status)
    /\ pc' = "done"
    /\ UNCHANGED <<op, args, manager, proc, out>>

(* detect_main_repo *)

CallDetectMainRepo ==
    /\ pc = "idle"
    /\ \E project_name \in ProjectNames, repo_name \in DetectRepoNames,
          commit \in DetectCommits, src_dir \in SrcDirs :
          args' = [project_name |-> project_name, repo_name |-> repo_name,
                   commit |-> commit, src_dir |-> src_dir]
    /\ op' = "detect_main_repo"
    /\ pc' = "dm_check"
    /\ log' = <<>>
    /\ result' = NoResult
    /\ UNCHANGED <<manager, proc, out>>

\* lines 77-83: without a repo_name and a commit, print and return (None, None);
\* with both, print a notice and go on
DetectCheck ==
    /\ pc = "dm_check"
    /\ IF DetectImpossible(args.repo_name, args.commit)
       THEN /\ log' = Append(log, [ev |-> "print", text |-> "can not detect"])
            /\ result' = Return(<<NoneV, NoneV>>)
            /\ pc' = "done"
       ELSE /\ log' = IF Truthy(args.repo_name) /\ Truthy(args.commit)
                      THEN Append(log, [ev |-> "print", text |-> "using repo name"])
                      ELSE log
            /\ pc' = "dm_image"
            /\ UNCHANGED result
    /\ UNCHANGED <<op, args, manager, proc, out>>

\* a detection that runs the container without building the image
DetectBuildImageSkipped ==
    /\ pc = "dm_image"
    /\ pc' = "dm_run"
    /\ UNCHANGED <<op, args, manager, log, proc, out, result>>

\* line 87: helper.build_image_impl(project_name)
DetectBuildImage ==
    /\ pc = "dm_image"
    /\ log' = Append(log, [ev |-> "build_image_impl", project_name |-> args.project_name])
    /\ pc' = "dm_run"
    /\ UNCHANGED <<op, args, manager, proc, out, result>>

\* lines 88-101: compose the command, execute it (check_result left False) and
\* parse what it printed; an exception of execute is not caught
DetectRun ==
    /\ pc = "dm_run"
    /\ \E p \in Procs :
          LET command == CommandToRun(args.project_name, args.repo_name, args.commit,
                                      args.src_dir)
              r == Execute(FALSE, p)
          IN /\ log' = Append(log, [ev |-> "Popen", command |-> command,
                                    cwd |-> ExecuteCwd(NoneV)])
             /\ proc' = Spawned(p)
             /\ IF r.kind = "raise"
                THEN /\ result' = r
                     /\ UNCHANGED out
                ELSE /\ out' = r.value[1]
                     /\ result' = ParseDetected(r.value[1])
    /\ pc' = "done"
    /\ UNCHANGED <<op, args, manager>>

(* execute, called on its own *)

CallExecute ==
    /\ pc = "idle"
    /\ \E command \in Commands, location \in Locations, check_result \in BOOLEAN :
          args' = [command |-> command, location |-> location,
                   check_result |-> check_result]
    /\ op' = "execute"
    /\ pc' = "ex_run"
    /\ log' = <<>>
    /\ result' = NoResult
    /\ UNCHANGED <<manager, proc, out>>

\* lines 119-128
ExecuteRun ==
    /\ pc = "ex_run"
    /\ \E p \in Procs :
          /\ log' = Append(log, [ev |-> "Popen", command |-> args.command,
                                 cwd |-> ExecuteCwd(args.location)])
          /\ proc' = Spawned(p)
          /\ result' = Execute(args.check_result, p)
    /\ pc' = "done"
    /\ UNCHANGED <<op, args, manager, out>>

\* the call is over: the caller has the result and drops what the call used
ReturnToCaller ==
    /\ pc = "done"
    /\ op' = "none"
    /\ pc' = "idle"
    /\ args' = NoArgs
    /\ manager' = NoManager
    /\ log' = <<>>
    /\ proc' = NoProc
    /\ out' = NoneV
    /\ result' = NoResult

Next ==
    \/ CallBuildFuzzersFromCommit
    \/ BuildCheckout
    \/ BuildDelegate
    \/ CallDetectMainRepo
    \/ DetectCheck
    \/ DetectBuildImage
    \/ DetectRun
    \/ CallExecute
    \/ ExecuteRun
    \/ ReturnToCaller

Spec == Init /\ [][Next]_vars

----------------------------------------------------------------------------
(* Properties *)

\* the positions of the log that hold a call of kind e
Events(e) == {i \in 1..Len(log) : log[i].ev = e}

InBuild == op = "build_fuzzers_from_commit"
InDetect == op = "detect_main_repo"
InExecute == op = "execute"

\* C1: in build_fuzzers_from_commit the build delegate runs at most once, and
\* only after checkout_commit(commit) has completed for the requested commit:
\* the delegate sees the working copy pinned to that commit.
C1_CheckoutBeforeBuild ==
    InBuild =>
        /\ Cardinality(Events("build_fuzzers_impl")) <= 1
        /\ \A i \in Events("build_fuzzers_impl") :
              /\ \E j \in 1..(i - 1) :
                    /\ log[j].ev = "checkout_commit"
                    /\ log[j].commit = args.commit
                    /\ log[j].ok
              /\ log[i].head = args.commit

\* the delegate has run for a checked-out commit
C1_Witness ==
    /\ InBuild
    /\ pc = "done"
    /\ Len(log) = 2
    /\ log[1].ev = "checkout_commit" /\ log[1].ok
    /\ log[2].ev = "build_fuzzers_impl" /\ log[2].head = args.commit
    /\ manager.head = args.commit

\* C8: when checkout_commit fails, build_fuzzers_from_commit ends by raising
\* that same failure and the build delegate is never called.
C8_CheckoutFailurePropagates ==
    (InBuild /\ \E i \in Events("checkout_commit") : ~log[i].ok) =>
        /\ Events("build_fuzzers_impl") = {}
        /\ pc = "done"
        /\ result = Raise("CheckoutError")

\* a call for a commit the manager cannot check out has ended
C8_Witness ==
    /\ InBuild
    /\ pc = "done"
    /\ args.commit \notin ValidCommits
    /\ result.kind = "raise"

\* C10: after a successful checkout build_fuzzers_from_commit returns the
\* delegate's status, and calls it with clean=True, env_to_add=None, the
\* caller's engine, sanitizer and architecture, source_path = repo_dir and
\* mount_location = '/src' joined with repo_name ('/src/y' for repo_name 'y').
C10_DelegatesBuild ==
    (InBuild /\ pc = "done" /\ CheckoutSucceeds(args.commit)) =>
        /\ Len(log) = 2
        /\ log[2].ev = "build_fuzzers_impl"
        /\ result = Return(log[2].status)
        /\ log[2].project_name = args.project_name
        /\ log[2].clean = TRUE
        /\ log[2].env_to_add = NoneV
        /\ log[2].engine = args.engine
        /\ log[2].sanitizer = args.sanitizer
        /\ log[2].architecture = args.architecture
        /\ log[2].source_path = manager.repo_dir
        /\ (manager.repo_name[1] # "/" =>
               log[2].mount_location = <<"/", "s", "r", "c", "/">> \o manager.repo_name)
        /\ (manager.repo_name[1] = "/" => log[2].mount_location = manager.repo_name)
        /\ (manager.repo_name = <<"y">> =>
               log[2].mount_location = <<"/", "s", "r", "c", "/", "y">>)

\* a build for repo_name 'y' has returned the failure status of the delegate
C10_Witness ==
    /\ InBuild
    /\ pc = "done"
    /\ manager.repo_name = <<"y">>
    /\ result = Return(1)

\* absent or empty: what Python's `not v` accepts
Falsy(v) == v = NoneV \/ v = Str(<<>>)

\* C6: detect_main_repo called with neither a repo_name nor a commit returns
\* (None, None) and on that path calls neither helper.build_image_impl nor
\* execute.
C6_NoAnchorNoContainer ==
    (InDetect /\ Falsy(args.repo_name) /\ Falsy(args.commit)) =>
        /\ Events("build_image_impl") = {}
        /\ Events("Popen") = {}
        /\ pc \in {"dm_check", "done"}
        /\ (pc = "done" => result = Return(<<NoneV, NoneV>>))

\* a call with an empty repo_name and no commit has returned
C6_Witness ==
    /\ InDetect
    /\ pc = "done"
    /\ args.repo_name = Str(<<>>)
    /\ args.commit = NoneV
    /\ result = Return(<<NoneV, NoneV>>)

\* the flag is followed by the value somewhere in the command
HasOption(command, flag, value) ==
    \E k \in 1..(Len(command) - 1) : command[k] = flag /\ command[k + 1] = value

\* how many tokens of the command are the flag
CountFlag(command, flag) == Cardinality({k \in 1..Len(command) : command[k] = flag})

\* C7: every container command of detect_main_repo carries --src_dir <src_dir>
\* and exactly one of --repo_name <repo_name> and --example_commit <commit>:
\* --repo_name whenever a repo_name is given (also when a commit is given too),
\* --example_commit only when it is not.
C7_CommandFlags ==
    InDetect =>
        \A i \in Events("Popen") :
            LET command == log[i].command
            IN /\ HasOption(command, TokSrcDir, args.src_dir)
               /\ CountFlag(command, TokSrcDir) = 1
               /\ CountFlag(command, TokRepoName) + CountFlag(command, TokExampleCommit) = 1
               /\ (~Falsy(args.repo_name) =>
                      HasOption(command, TokRepoName, args.repo_name.data))
               /\ (Falsy(args.repo_name) =>
                      HasOption(command, TokExampleCommit, args.commit.data))

\* the container has run for a call that gave both a repo_name and a commit
C7_Witness ==
    /\ InDetect
    /\ pc = "done"
    /\ Events("Popen") # {}
    /\ ~Falsy(args.repo_name)
    /\ ~Falsy(args.commit)

\* C9: whenever detect_main_repo runs the container, build_image_impl has been
\* called for the project and has returned before, and the command is
\* `docker run` on the image 'gcr.io/oss-fuzz/' + project_name.
C9_ImageBeforeRun ==
    InDetect =>
        \A i \in Events("Popen") :
            /\ \E j \in 1..(i - 1) :
                  /\ log[j].ev = "build_image_impl"
                  /\ log[j].project_name = args.project_name
            /\ log[i].command[1] = TokDocker
            /\ log[i].command[2] = TokRun
            /\ log[i].command[5] = ImagePrefix \o args.project_name
            /\ (args.project_name = <<"p">> =>
                   log[i].command[5] = <<"g", "c", "r", ".", "i", "o", "/", "o", "s", "s",
                                         "-", "f", "u", "z", "z", "/", "p">>)

\* the container has run for project 'p'
C9_Witness ==
    /\ InDetect
    /\ pc = "done"
    /\ args.project_name = <<"p">>
    /\ Events("Popen") # {}
    /\ Events("build_image_impl") # {}

----------------------------------------------------------------------------
(* execute *)

\* C3: with check_result true execute raises the execution error if and only
\* if the exit code is non-zero or the process wrote bytes to standard error;
\* with check_result false it raises for neither.
C3_StrictRaisesOnStderr ==
    (InExecute /\ pc = "done") =>
        IF args.check_result
        THEN (result = Raise("RuntimeError"))
                 <=> (proc.returncode # 0 \/ proc.stderr # <<>>)
        ELSE result # Raise("RuntimeError")

\* C4: standard output that is not ASCII raises nothing: execute returns the
\* raw bytes unchanged, together with the exit code.
C4_RawBytesReturned ==
    (InExecute /\ pc = "done" /\ ~IsAscii(proc.stdout)
        /\ result # Raise("RuntimeError")) =>
        result = Return(<<Bytes(proc.stdout), proc.returncode>>)

\* C4, amended: unless the check_result test raises first, execute returns the
\* decoded text and the exit code when standard output is ASCII, and raises
\* UnicodeDecodeError (returning nothing) when it is not.
C4_DecodeFailureRaises ==
    (InExecute /\ pc = "done" /\ result # Raise("RuntimeError")) =>
        IF \A i \in 1..Len(proc.stdout) : proc.stdout[i] # "x80"
        THEN result = Return(<<Str(proc.stdout), proc.returncode>>)
        ELSE result = Raise("UnicodeDecodeError")

\* execute has ended on output that is not ASCII, without the check_result test
C4_Witness ==
    /\ InExecute
    /\ pc = "done"
    /\ ~args.check_result
    /\ \E i \in 1..Len(proc.stdout) : proc.stdout[i] = "x80"
    /\ result.kind = "raise"

----------------------------------------------------------------------------
(* detect_main_repo: what it makes of the probe's output *)

\* the probe has run and its output is ASCII text
ProbeText ==
    /\ InDetect
    /\ pc = "done"
    /\ proc.spawned
    /\ \A i \in 1..Len(proc.stdout) : proc.stdout[i] # "x80"

\* text t stands in s at position i
Occurs(s, i, t) ==
    /\ i >= 1
    /\ i + Len(t) - 1 <= Len(s)
    /\ SubSeq(s, i, i + Len(t) - 1) = t

LineEnds == {"\n", "\r"}
Blank == {" ", "\n", "\r", "\t"}

\* `Detected repo: X Y` is a line of s, at position i: it starts the text or
\* follows a line end, and a line end, or only blanks to the end of the text,
\* follow it
LineAt(s, i, X, Y) ==
    LET line == Marker \o X \o <<" ">> \o Y
        next == i + Len(line)
    IN /\ Occurs(s, i, line)
       /\ i = 1 \/ s[i - 1] \in LineEnds
       /\ \/ next > Len(s)
          \/ s[next] \in LineEnds
          \/ \A k \in next..Len(s) : s[k] \in Blank

\* ... and it is the last line: only blanks follow it, and the marker stands
\* nowhere before it
LastLineAt(s, i, X, Y) ==
    /\ LineAt(s, i, X, Y)
    /\ \A k \in (i + Len(Marker) + Len(X) + 1 + Len(Y))..Len(s) : s[k] \in Blank
    /\ \A j \in 1..(i - 1) : ~Occurs(s, j, Marker)

\* C2: for every probe output that contains a line `Detected repo: X Y`,
\* detect_main_repo returns exactly (X, Y), whatever lines precede or follow
\* that line and whatever blanks end the output, and both returned fields
\* hold no whitespace.
C2_AnyLineDetected ==
    ProbeText =>
        \A X \in Tokens, Y \in Tokens :
              (\E i \in 1..Len(proc.stdout) : LineAt(proc.stdout, i, X, Y)) =>
                  /\ result = Return(<<Str(X), Str(Y)>>)
                  /\ \A f \in 1..2 : \A k \in 1..Len(result.value[f].data) :
                         result.value[f].data[k] \notin Blank

\* C2, amended: for every ASCII probe output whose last line is
\* `Detected repo: X Y` (only blanks follow it and the marker stands nowhere
\* before it), detect_main_repo returns exactly (X, Y), whatever lines precede
\* it and whatever blanks end the output; the returned fields hold no space
\* character.
C2_LastLineDetected ==
    ProbeText =>
        /\ \A X \in Tokens, Y \in Tokens :
              (\E i \in 1..Len(proc.stdout) : LastLineAt(proc.stdout, i, X, Y)) =>
                  result = Return(<<Str(X), Str(Y)>>)
        /\ (result.kind = "return" /\ result.value # <<NoneV, NoneV>>) =>
               \A f \in 1..2 : \A k \in 1..Len(result.value[f].data) :
                   result.value[f].data[k] # " "

\* the line was found below a preceding line and above trailing blanks
C2_Witness ==
    /\ ProbeText
    /\ proc.stdout = <<"\n">> \o Marker \o <<"u", " ", "y", "\r", "\n">>
    /\ result = Return(<<Str(<<"u">>), Str(<<"y">>)>>)

\* a matched pair: two non-empty texts
IsPair(v) ==
    /\ v[1].type = "str" /\ v[1].data # <<>>
    /\ v[2].type = "str" /\ v[2].data # <<>>

\* C5: detect_main_repo never raises: whatever the probe's exit code, standard
\* output (ASCII or not) and standard error, it returns a matched
\* (origin, name) pair or (None, None).
C5_NeverRaises ==
    (InDetect /\ pc = "done") =>
        /\ result.kind = "return"
        /\ result.value = <<NoneV, NoneV>> \/ IsPair(result.value)

\* C5, amended: detect_main_repo raises exactly when the probe's standard
\* output is not ASCII (the UnicodeDecodeError of execute, not caught); for
\* every other outcome of the probe - any exit code, any standard error, no
\* matching line - it returns a matched (origin, name) pair or (None, None).
C5_RaisesOnlyOnNonAscii ==
    (InDetect /\ pc = "done") =>
        IF proc.spawned /\ \E i \in 1..Len(proc.stdout) : proc.stdout[i] = "x80"
        THEN result = Raise("UnicodeDecodeError")
        ELSE /\ result.kind = "return"
             /\ result.value = <<NoneV, NoneV>> \/ IsPair(result.value)

\* a probe that failed, wrote to standard error and printed no matching line
\* gave (None, None)
C5_Witness ==
    /\ InDetect
    /\ pc = "done"
    /\ proc.spawned
    /\ proc.returncode = 1
    /\ proc.stderr # <<>>
    /\ result = Return(<<NoneV, NoneV>>)

=============================================================================
